---- MODULE Spec2Model ----
(***************************************************************************)
(* Model of thousandeyes/resource_stream.go: the v7 "stream" resource of   *)
(* the ThousandEyes Terraform provider.  The StreamClient adapter (do,     *)
(* decodeJSON), the four CRUD operations and the four resource handlers    *)
(* are translated function by function.  The HTTP server and the network   *)
(* are the environment: every request that is sent is answered by an       *)
(* arbitrary outcome (transport error, or any status code with any body),  *)
(* and the server may or may not have acted on the request.                *)
(***************************************************************************)
EXTENDS Integers, Sequences, FiniteSets, TLC

VARIABLES client, d, remote, handler, calls, ret, panicked

vars == <<client, d, remote, handler, calls, ret, panicked>>

(***************************************************************************)
(* Bounds and input domains.                                               *)
(***************************************************************************)
\* Number of distinct well-formed stream IDs the server can hand out.
MaxId == 1

ValidIds == {"s" \o ToString(i) : i \in 1..MaxId}

\* An ID that makes "/stream/<id>.json" unparsable as a URL (bad % escape).
BadId == "%zz"

Ids == {""} \cup ValidIds \cup {BadId}

\* Status codes around every comparison made by the code.
StatusCodes == {199, 200, 201, 204, 299, 300, 404}

\* A nil pointer / nil error / nil response.
Nil == [kind |-> "nil"]

(***************************************************************************)
(* JSON values.  An object is a function from keys to tagged values.       *)
(***************************************************************************)
JStr(s) == [t |-> "string", v |-> s]

JBool(b) == [t |-> "bool", v |-> b]

JNum(n) == [t |-> "number", v |-> n]

JObject(o) == [kind |-> "object", obj |-> o]

JNull == [kind |-> "null"]

EmptyBody == [kind |-> "empty"]

MalformedBody == [kind |-> "malformed"]

\* type Stream struct (ID, Enabled and one representative string field;
\* the other string fields are handled exactly like Type).
ZeroStream == [ID |-> "", Enabled |-> FALSE, Type |-> ""]

Types == {"", "otlp"}

StreamAttrs == [Enabled : BOOLEAN, Type : Types]

\* json.Marshal of a Stream: every field is `omitempty`.
MarshalStream(s) ==
    LET keys == (IF s.ID # "" THEN {"id"} ELSE {})
                \cup (IF s.Enabled THEN {"enabled"} ELSE {})
                \cup (IF s.Type # "" THEN {"type"} ELSE {})
    IN JObject([k \in keys |->
                 IF k = "id" THEN JStr(s.ID)
                 ELSE IF k = "enabled" THEN JBool(s.Enabled)
                 ELSE JStr(s.Type)])

\* json.Marshal(payload): nil marshals to null.
Marshal(payload) == IF payload = Nil THEN JNull ELSE MarshalStream(payload)

\* Does json.Decoder.Decode into a Stream succeed on this body?
Decodable(b) ==
    /\ b.kind = "object"
    /\ ("id" \in DOMAIN b.obj => b.obj["id"].t = "string")
    /\ ("enabled" \in DOMAIN b.obj => b.obj["enabled"].t = "bool")
    /\ ("type" \in DOMAIN b.obj => b.obj["type"].t = "string")

\* The Stream a successful Decode leaves in the target: absent keys keep the
\* zero value.
Unmarshal(o) ==
    [ID      |-> IF "id" \in DOMAIN o THEN o["id"].v ELSE "",
     Enabled |-> IF "enabled" \in DOMAIN o THEN o["enabled"].v ELSE FALSE,
     Type    |-> IF "type" \in DOMAIN o THEN o["type"].v ELSE ""]

\* A well-formed stream document with the given id.
StreamDoc(i) ==
    JObject(("id" :> JStr(i)) @@ ("enabled" :> JBool(TRUE))
            @@ ("type" :> JStr("otlp")))

\* Response bodies the server may send: no body, a body that is not JSON,
\* an object of the wrong shape, an object without fields, and stream
\* documents.
Bodies ==
    {EmptyBody, MalformedBody, JObject(("id" :> JNum(7))), JObject(<<>>),
     StreamDoc(BadId)}
    \cup {StreamDoc(i) : i \in ValidIds}

Responses == [StatusCode : StatusCodes, Body : Bodies]

\* The answers the handler-level specification draws from: every branch of
\* the handlers is taken with these.
TypicalResponses ==
    [StatusCode : {200, 201, 204, 404},
     Body : {MalformedBody, JObject(<<>>), StreamDoc(BadId)}
            \cup {StreamDoc(i) : i \in ValidIds}]

(***************************************************************************)
(* The environment: server and network.                                    *)
(***************************************************************************)
\* What the server may have done to its set of streams once a request
\* reached it.
ServerEffects(method, id, rem) ==
    IF method = "POST" THEN {rem} \cup {rem \cup {i} : i \in ValidIds \ rem}
    ELSE IF method = "DELETE" THEN {rem, rem \ {id}}
    ELSE {rem}

\* Outcomes of sc.c.HTTPClient.Do(req) for answers drawn from `rs`.
NetOutcomes(method, id, rem, rs) ==
    {[transportErr |-> TRUE, resp |-> Nil, remoteAfter |-> ra] :
        ra \in ServerEffects(method, id, rem)}
    \cup {[transportErr |-> FALSE, resp |-> r, remoteAfter |-> ra] :
        r \in rs, ra \in ServerEffects(method, id, rem)}

(***************************************************************************)
(* thousandeyes.Client and StreamClient.                                   *)
(***************************************************************************)
V6 == <<"v", "6">>

V7 == <<"v", "7">>

\* strings.ReplaceAll on strings represented as sequences of characters
\* (old is non-empty): non-overlapping matches, left to right.
RECURSIVE ReplaceAll(_, _, _)
ReplaceAll(s, old, new) ==
    IF Len(s) < Len(old) THEN s
    ELSE IF SubSeq(s, 1, Len(old)) = old
         THEN new \o ReplaceAll(SubSeq(s, Len(old) + 1, Len(s)), old, new)
         ELSE <<Head(s)>> \o ReplaceAll(Tail(s), old, new)

\* Configurations of the provider's v6 client.  Limiter is TRUE when the
\* Limiter pointer is non-nil.
Clients ==
    {[APIEndpoint |-> <<"t", "e", "/", "v", "6">>, AuthToken |-> "tok",
      UserAgent |-> "ua", AccountGroupID |-> "", Limiter |-> FALSE],
     [APIEndpoint |-> <<"v", "6", ".", "t", "e", "/", "v", "6">>,
      AuthToken |-> "tok", UserAgent |-> "ua", AccountGroupID |-> "1234",
      Limiter |-> TRUE]}

\* NewStreamClientFrom(v6): `orig` is the caller's client after the call,
\* `sc` the StreamClient returned.
\* Faulty variant: v7 aliases v6 instead of copying it, so the rewrite of the
\* endpoint reaches the caller's client.
NewStreamClientFrom_sharesClient(v6) ==
    [orig |-> [v6 EXCEPT !.APIEndpoint = ReplaceAll(v6.APIEndpoint, V6, V7)],
     sc   |-> [c |-> [v6 EXCEPT !.APIEndpoint = ReplaceAll(v6.APIEndpoint, V6, V7)]]]

NewStreamClientFrom(v6) ==
    [orig |-> v6,
     sc   |-> [c |-> [v6 EXCEPT !.APIEndpoint = ReplaceAll(v6.APIEndpoint, V6, V7)]]]

(***************************************************************************)
(* Errors.                                                                 *)
(***************************************************************************)
\* The error HTTPClient.Do returned.
ErrTransport == [kind |-> "transport"]

\* fmt.Errorf("Failed call API endpoint. HTTP response code: %v.", code)
ErrAPI(code) == [kind |-> "status", op |-> "call API endpoint", code |-> code]

\* fmt.Errorf("failed to <op> stream, response code %d", code)
ErrOp(op, code) == [kind |-> "status", op |-> op, code |-> code]

\* fmt.Errorf("Could not decode JSON response: %v", dErr)
ErrDecode == [kind |-> "decode"]

(***************************************************************************)
(* StreamClient.do and StreamClient.decodeJSON.                            *)
(***************************************************************************)
\* url.Parse inside http.NewRequest fails on a path with a bad % escape.
URLParses(path) == \A i \in 1..Len(path) : path[i] # BadId

\* The request do() builds.
BuildRequest(sc, method, path, data) ==
    [method |-> method,
     url    |-> [base |-> sc.c.APIEndpoint, path |-> path, suffix |-> ".json",
                 query |-> IF sc.c.AccountGroupID # ""
                           THEN <<<<"aid", sc.c.AccountGroupID>>>> ELSE <<>>],
     header |-> [accept |-> "application/json",
                 authorization |-> <<"Bearer", sc.c.AuthToken>>,
                 contentType |-> "application/json",
                 userAgent |-> sc.c.UserAgent],
     body   |-> data]

\* do(method, path, payload) against the network outcome `net`.
\*   events: what the call did, in order;
\*   req:    the request handed to the transport, or Nil;
\*   got:    the response the transport returned, or Nil;
\*   resp, err: the values do() returns;
\*   panic:  the error of http.NewRequest is dropped, so an unparsable URL
\*           leaves req nil and the next statement dereferences it.
\* json.Marshal cannot fail on a Stream or on nil.
\* Faulty variant: a transport error is answered by sending the request
\* once more.
do_retriesOnFailure(sc, method, path, payload, net) ==
    LET waited == IF sc.c.Limiter THEN <<"wait">> ELSE <<>>
        data   == Marshal(payload)
        req    == BuildRequest(sc, method, path, data)
    IN IF ~URLParses(path)
       THEN [events |-> waited, req |-> Nil, got |-> Nil, resp |-> Nil,
             err |-> Nil, panic |-> TRUE]
       ELSE IF net.transportErr
       THEN [events |-> waited \o <<"send", "send">>, req |-> req,
             got |-> Nil, resp |-> Nil, err |-> ErrTransport,
             panic |-> FALSE]
       ELSE IF 199 >= net.resp.StatusCode \/ 300 <= net.resp.StatusCode
       THEN [events |-> waited \o <<"send">>, req |-> req, got |-> net.resp,
             resp |-> Nil, err |-> ErrAPI(net.resp.StatusCode),
             panic |-> FALSE]
       ELSE [events |-> waited \o <<"send">>, req |-> req, got |-> net.resp,
             resp |-> net.resp, err |-> Nil, panic |-> FALSE]

do(sc, method, path, payload, net) ==
    LET waited == IF sc.c.Limiter THEN <<"wait">> ELSE <<>>
        data   == Marshal(payload)
        req    == BuildRequest(sc, method, path, data)
    IN IF ~URLParses(path)
       THEN [events |-> waited, req |-> Nil, got |-> Nil, resp |-> Nil,
             err |-> Nil, panic |-> TRUE]
       ELSE IF net.transportErr
       THEN [events |-> waited \o <<"send">>, req |-> req, got |-> Nil,
             resp |-> Nil, err |-> ErrTransport, panic |-> FALSE]
       ELSE IF 199 >= net.resp.StatusCode \/ 300 <= net.resp.StatusCode
       THEN [events |-> waited \o <<"send">>, req |-> req, got |-> net.resp,
             resp |-> Nil, err |-> ErrAPI(net.resp.StatusCode),
             panic |-> FALSE]
       ELSE [events |-> waited \o <<"send">>, req |-> req, got |-> net.resp,
             resp |-> net.resp, err |-> Nil, panic |-> FALSE]

\* decodeJSON(resp, &target): Decode, then the deferred resp.Body.Close().
\* Faulty variant: the deferred Close is missing.
decodeJSON_noClose(resp) ==
    [events |-> <<"decode">>,
     err    |-> IF Decodable(resp.Body) THEN Nil ELSE ErrDecode,
     target |-> IF Decodable(resp.Body) THEN Unmarshal(resp.Body.obj)
                ELSE ZeroStream]

decodeJSON(resp) ==
    [events |-> <<"decode", "close">>,
     err    |-> IF Decodable(resp.Body) THEN Nil ELSE ErrDecode,
     target |-> IF Decodable(resp.Body) THEN Unmarshal(resp.Body.obj)
                ELSE ZeroStream]

(***************************************************************************)
(* CRUD operations.  Each yields the record of do() with `err` replaced by *)
(* the error the operation returns and `value` the *Stream it returns.     *)
(***************************************************************************)
\* Faulty variant: no exact-status check, any status do() lets through is
\* decoded.
CreateStream_anySuccessStatus(sc, s, net) ==
    LET r == do(sc, "POST", <<"/stream">>, s, net) IN
    IF r.panic \/ r.err # Nil THEN r @@ [value |-> Nil]
    ELSE LET dec == decodeJSON(r.resp) IN
         IF dec.err # Nil
         THEN [r EXCEPT !.err = ErrDecode, !.events = r.events \o dec.events]
              @@ [value |-> Nil]
         ELSE [r EXCEPT !.events = r.events \o dec.events]
              @@ [value |-> dec.target]

CreateStream(sc, s, net) ==
    LET r == do(sc, "POST", <<"/stream">>, s, net) IN
    IF r.panic \/ r.err # Nil THEN r @@ [value |-> Nil]
    ELSE IF r.resp.StatusCode # 201
    THEN [r EXCEPT !.err = ErrOp("create", r.resp.StatusCode)]
         @@ [value |-> Nil]
    ELSE LET dec == decodeJSON(r.resp) IN
         IF dec.err # Nil
         THEN [r EXCEPT !.err = ErrDecode, !.events = r.events \o dec.events]
              @@ [value |-> Nil]
         ELSE [r EXCEPT !.events = r.events \o dec.events]
              @@ [value |-> dec.target]

\* Faulty variant: a decode failure returns the target along with the error.
GetStream_targetWithError(sc, id, net) ==
    LET r == do(sc, "GET", <<"/stream/", id>>, Nil, net) IN
    IF r.panic \/ r.err # Nil THEN r @@ [value |-> Nil]
    ELSE IF r.resp.StatusCode # 200
    THEN [r EXCEPT !.err = ErrOp("get", r.resp.StatusCode)]
         @@ [value |-> Nil]
    ELSE LET dec == decodeJSON(r.resp) IN
         IF dec.err # Nil
         THEN [r EXCEPT !.err = ErrDecode, !.events = r.events \o dec.events]
              @@ [value |-> dec.target]
         ELSE [r EXCEPT !.events = r.events \o dec.events]
              @@ [value |-> dec.target]

GetStream(sc, id, net) ==
    LET r == do(sc, "GET", <<"/stream/", id>>, Nil, net) IN
    IF r.panic \/ r.err # Nil THEN r @@ [value |-> Nil]
    ELSE IF r.resp.StatusCode # 200
    THEN [r EXCEPT !.err = ErrOp("get", r.resp.StatusCode)]
         @@ [value |-> Nil]
    ELSE LET dec == decodeJSON(r.resp) IN
         IF dec.err # Nil
         THEN [r EXCEPT !.err = ErrDecode, !.events = r.events \o dec.events]
              @@ [value |-> Nil]
         ELSE [r EXCEPT !.events = r.events \o dec.events]
              @@ [value |-> dec.target]

UpdateStream(sc, id, s, net) ==
    LET r == do(sc, "PUT", <<"/stream/", id>>, s, net) IN
    IF r.panic \/ r.err # Nil THEN r @@ [value |-> Nil]
    ELSE IF r.resp.StatusCode # 200
    THEN [r EXCEPT !.err = ErrOp("update", r.resp.StatusCode)]
         @@ [value |-> Nil]
    ELSE LET dec == decodeJSON(r.resp) IN
         IF dec.err # Nil
         THEN [r EXCEPT !.err = ErrDecode, !.events = r.events \o dec.events]
              @@ [value |-> Nil]
         ELSE [r EXCEPT !.events = r.events \o dec.events]
              @@ [value |-> dec.target]

\* Faulty variant: the body of a 204 answer is decoded.
DeleteStream_decodesBody(sc, id, net) ==
    LET r == do(sc, "DELETE", <<"/stream/", id>>, Nil, net) IN
    IF r.panic \/ r.err # Nil THEN r @@ [value |-> Nil]
    ELSE IF r.resp.StatusCode # 204
    THEN [r EXCEPT !.err = ErrOp("delete", r.resp.StatusCode)]
         @@ [value |-> Nil]
    ELSE LET dec == decodeJSON(r.resp) IN
         [r EXCEPT !.err = dec.err, !.events = r.events \o dec.events]
         @@ [value |-> Nil]

\* DeleteStream returns only an error; value is always Nil.
DeleteStream(sc, id, net) ==
    LET r == do(sc, "DELETE", <<"/stream/", id>>, Nil, net) IN
    IF r.panic \/ r.err # Nil THEN r @@ [value |-> Nil]
    ELSE IF r.resp.StatusCode # 204
    THEN [r EXCEPT !.err = ErrOp("delete", r.resp.StatusCode)]
         @@ [value |-> Nil]
    ELSE r @@ [value |-> Nil]

(***************************************************************************)
(* Collaborators of the handlers.                                          *)
(***************************************************************************)
\* d.SetId(id)
SetId(dd, id) == [dd EXCEPT !.Id = id]

\* ResourceBuildStruct(d, &Stream{}): the Stream described by the
\* representation's attributes.
ResourceBuildStruct(dd) ==
    [ID |-> "", Enabled |-> dd.attrs.Enabled, Type |-> dd.attrs.Type]

buildStreamStruct(dd) == ResourceBuildStruct(dd)

\* ResourceUpdate(d, &Stream{}): the Stream of the representation's
\* changed attributes.
ResourceUpdate(dd) ==
    [ID |-> "", Enabled |-> dd.attrs.Enabled, Type |-> dd.attrs.Type]

\* ResourceRead(d, remote): populate the representation from the entity.
ResourceRead(dd, s) ==
    [d   |-> [dd EXCEPT !.attrs = [Enabled |-> s.Enabled, Type |-> s.Type]],
     err |-> Nil]

(***************************************************************************)
(* Resource handlers.                                                      *)
(***************************************************************************)
\* The entry a handler leaves in `calls` for a CRUD call it made: the
\* operation, its id argument, the request that went out and what the call
\* returned.
Made(op, id, out) ==
    [op |-> op, id |-> id, req |-> out.req, err |-> out.err,
     value |-> out.value, panic |-> out.panic]

\* The server's streams after a call: changed only if a request was sent.
After(out, net, rem) == IF out.req # Nil THEN net.remoteAfter ELSE rem

ErrPanic == [kind |-> "panic"]

\* Faulty variant: the stored ID survives a failed GetStream.
resourceStreamRead_keepsIdOnFailure(dd, m, net, rem) ==
    LET nc   == NewStreamClientFrom(m)
        out  == GetStream(nc.sc, dd.Id, net)
        rem1 == After(out, net, rem)
        log  == <<Made("Get", dd.Id, out)>>
    IN IF out.panic
       THEN [client |-> nc.orig, d |-> dd, remote |-> rem1, calls |-> log,
             err |-> ErrPanic, panic |-> TRUE]
       ELSE IF out.err # Nil
       THEN [client |-> nc.orig, d |-> dd, remote |-> rem1,
             calls |-> log, err |-> out.err, panic |-> FALSE]
       ELSE LET rr == ResourceRead(dd, out.value) IN
            [client |-> nc.orig, d |-> rr.d, remote |-> rem1, calls |-> log,
             err |-> rr.err, panic |-> FALSE]

\* resourceStreamRead(d, m) with the network outcome of its GET.
resourceStreamRead(dd, m, net, rem) ==
    LET nc   == NewStreamClientFrom(m)
        out  == GetStream(nc.sc, dd.Id, net)
        rem1 == After(out, net, rem)
        log  == <<Made("Get", dd.Id, out)>>
    IN IF out.panic
       THEN [client |-> nc.orig, d |-> dd, remote |-> rem1, calls |-> log,
             err |-> ErrPanic, panic |-> TRUE]
       ELSE IF out.err # Nil
       THEN [client |-> nc.orig, d |-> SetId(dd, ""), remote |-> rem1,
             calls |-> log, err |-> out.err, panic |-> FALSE]
       ELSE LET rr == ResourceRead(dd, out.value) IN
            [client |-> nc.orig, d |-> rr.d, remote |-> rem1, calls |-> log,
             err |-> rr.err, panic |-> FALSE]

\* The state a handler leaves behind.
Finish(h, m, dd, rem, log, err, panic) ==
    /\ handler' = h
    /\ client' = m
    /\ d' = dd
    /\ remote' = rem
    /\ calls' = log
    /\ ret' = err
    /\ panicked' = panic

FinishRead(h, log, rd) ==
    Finish(h, rd.client, rd.d, rd.remote, log \o rd.calls, rd.err, rd.panic)

\* Faulty variant: Read is invoked before the ID of the response is stored.
resourceStreamCreate_readsBeforeSetId ==
    /\ ~panicked
    /\ \E n1 \in NetOutcomes("POST", "", remote, TypicalResponses) :
         LET nc    == NewStreamClientFrom(client)
             local == buildStreamStruct(d)
             out   == CreateStream(nc.sc, local, n1)
             rem1  == After(out, n1, remote)
             log   == <<Made("Create", "", out)>>
         IN IF out.panic
            THEN Finish("Create", nc.orig, d, rem1, log, ErrPanic, TRUE)
            ELSE IF out.err # Nil
            THEN Finish("Create", nc.orig, d, rem1, log, out.err, FALSE)
            ELSE \E n2 \in NetOutcomes("GET", d.Id, rem1, TypicalResponses) :
                    LET rd == resourceStreamRead(d, nc.orig, n2, rem1) IN
                    FinishRead("Create", log,
                               [rd EXCEPT !.d = SetId(rd.d, out.value.ID)])

\* resourceStreamCreate(d, m)
resourceStreamCreate ==
    /\ ~panicked
    /\ \E n1 \in NetOutcomes("POST", "", remote, TypicalResponses) :
         LET nc    == NewStreamClientFrom(client)
             local == buildStreamStruct(d)
             out   == CreateStream(nc.sc, local, n1)
             rem1  == After(out, n1, remote)
             log   == <<Made("Create", "", out)>>
         IN IF out.panic
            THEN Finish("Create", nc.orig, d, rem1, log, ErrPanic, TRUE)
            ELSE IF out.err # Nil
            THEN Finish("Create", nc.orig, d, rem1, log, out.err, FALSE)
            ELSE LET d1 == SetId(d, out.value.ID) IN
                 \E n2 \in NetOutcomes("GET", d1.Id, rem1, TypicalResponses) :
                    FinishRead("Create", log,
                               resourceStreamRead(d1, nc.orig, n2, rem1))

\* resourceStreamUpdate(d, m)
resourceStreamUpdate ==
    /\ ~panicked
    /\ \E n1 \in NetOutcomes("PUT", d.Id, remote, TypicalResponses) :
         LET nc     == NewStreamClientFrom(client)
             update == ResourceUpdate(d)
             out    == UpdateStream(nc.sc, d.Id, update, n1)
             rem1   == After(out, n1, remote)
             log    == <<Made("Update", d.Id, out)>>
         IN IF out.panic
            THEN Finish("Update", nc.orig, d, rem1, log, ErrPanic, TRUE)
            ELSE IF out.err # Nil
            THEN Finish("Update", nc.orig, d, rem1, log, out.err, FALSE)
            ELSE \E n2 \in NetOutcomes("GET", d.Id, rem1, TypicalResponses) :
                    FinishRead("Update", log,
                               resourceStreamRead(d, nc.orig, n2, rem1))

\* The Read handler called by the framework.
Read ==
    /\ ~panicked
    /\ \E n1 \in NetOutcomes("GET", d.Id, remote, TypicalResponses) :
         FinishRead("Read", <<>>, resourceStreamRead(d, client, n1, remote))

\* Faulty variant: the stored ID is cleared even when DeleteStream failed.
resourceStreamDelete_clearsIdOnFailure ==
    /\ ~panicked
    /\ \E n1 \in NetOutcomes("DELETE", d.Id, remote, TypicalResponses) :
         LET nc   == NewStreamClientFrom(client)
             out  == DeleteStream(nc.sc, d.Id, n1)
             rem1 == After(out, n1, remote)
             log  == <<Made("Delete", d.Id, out)>>
         IN IF out.panic
            THEN Finish("Delete", nc.orig, d, rem1, log, ErrPanic, TRUE)
            ELSE IF out.err # Nil
            THEN Finish("Delete", nc.orig, SetId(d, ""), rem1, log, out.err,
                        FALSE)
            ELSE Finish("Delete", nc.orig, SetId(d, ""), rem1, log, Nil, FALSE)

\* resourceStreamDelete(d, m)
resourceStreamDelete ==
    /\ ~panicked
    /\ \E n1 \in NetOutcomes("DELETE", d.Id, remote, TypicalResponses) :
         LET nc   == NewStreamClientFrom(client)
             out  == DeleteStream(nc.sc, d.Id, n1)
             rem1 == After(out, n1, remote)
             log  == <<Made("Delete", d.Id, out)>>
         IN IF out.panic
            THEN Finish("Delete", nc.orig, d, rem1, log, ErrPanic, TRUE)
            ELSE IF out.err # Nil
            THEN Finish("Delete", nc.orig, d, rem1, log, out.err, FALSE)
            ELSE Finish("Delete", nc.orig, SetId(d, ""), rem1, log, Nil, FALSE)

\* A representation with the given ID and no attributes set.
NewData(id) == [Id |-> id, attrs |-> [Enabled |-> FALSE, Type |-> ""]]

Init ==
    /\ client \in Clients
    /\ d = NewData("")
    /\ remote = {}
    /\ handler = "none"
    /\ calls = <<>>
    /\ ret = Nil
    /\ panicked = FALSE

Next ==
    \/ resourceStreamCreate
    \/ Read
    \/ resourceStreamUpdate
    \/ resourceStreamDelete

Spec == Init /\ [][Next]_vars

(***************************************************************************)
(* One CRUD operation applied to drawn arguments and a drawn answer: the   *)
(* operations keep no state between calls, so one call per behaviour       *)
(* covers them.                                                            *)
(***************************************************************************)
Payloads == {ZeroStream, [ID |-> "", Enabled |-> TRUE, Type |-> "otlp"]}

\* The entry of `calls` for one CRUD call: everything do() recorded, the
\* values returned, whether a limiter was configured, and the server's set
\* of streams before and after the call.
LogCall(op, id, sc, out, before, after) ==
    out @@ [op |-> op, id |-> id, limiter |-> sc.c.Limiter,
            before |-> before, after |-> after]

FinishCall(op, id, sc, out, net) ==
    Finish(op, client, d, After(out, net, remote),
           <<LogCall(op, id, sc, out, remote, After(out, net, remote))>>,
           IF out.panic THEN ErrPanic ELSE out.err, out.panic)

CallCreateStream ==
    /\ calls = <<>>
    /\ \E s \in Payloads, net \in NetOutcomes("POST", "", remote, Responses) :
         LET sc == NewStreamClientFrom(client).sc IN
         FinishCall("Create", "", sc, CreateStream(sc, s, net), net)

CallGetStream ==
    /\ calls = <<>>
    /\ \E id \in Ids : \E net \in NetOutcomes("GET", id, remote, Responses) :
         LET sc == NewStreamClientFrom(client).sc IN
         FinishCall("Get", id, sc, GetStream(sc, id, net), net)

CallUpdateStream ==
    /\ calls = <<>>
    /\ \E id \in Ids, s \in Payloads :
       \E net \in NetOutcomes("PUT", id, remote, Responses) :
         LET sc == NewStreamClientFrom(client).sc IN
         FinishCall("Update", id, sc, UpdateStream(sc, id, s, net), net)

CallDeleteStream ==
    /\ calls = <<>>
    /\ \E id \in Ids : \E net \in NetOutcomes("DELETE", id, remote, Responses) :
         LET sc == NewStreamClientFrom(client).sc IN
         FinishCall("Delete", id, sc, DeleteStream(sc, id, net), net)

InitOps ==
    /\ client \in Clients
    /\ d = NewData("")
    /\ remote \in SUBSET ValidIds
    /\ handler = "none"
    /\ calls = <<>>
    /\ ret = Nil
    /\ panicked = FALSE

NextOps ==
    \/ CallCreateStream
    \/ CallGetStream
    \/ CallUpdateStream
    \/ CallDeleteStream

SpecOps == InitOps /\ [][NextOps]_vars

TypeOK ==
    /\ client \in Clients
    /\ d.Id \in Ids
    /\ d.attrs \in StreamAttrs
    /\ remote \subseteq ValidIds
    /\ Len(calls) <= 2
    /\ panicked \in BOOLEAN

(***************************************************************************)
(* Vocabulary of the properties.                                           *)
(***************************************************************************)
\* The string s contains the string sub.
Contains(s, sub) ==
    \E i \in 1..(Len(s) - Len(sub) + 1) : SubSeq(s, i, i + Len(sub) - 1) = sub

\* How often event e occurs in a sequence of events.
Count(events, e) == Cardinality({i \in DOMAIN events : events[i] = e})

\* The status each operation expects (table of the CRUD operations).
ExpectedStatus(op) ==
    CASE op = "Create" -> 201
      [] op = "Get"    -> 200
      [] op = "Update" -> 200
      [] op = "Delete" -> 204

\* The operation name the error messages carry.
NameInError(op) ==
    CASE op = "Create" -> "create"
      [] op = "Get"    -> "get"
      [] op = "Update" -> "update"
      [] op = "Delete" -> "delete"

Decoding == {"Create", "Get", "Update"}

\* The CRUD calls on record (SpecOps: the one call made).
Calls == {calls[i] : i \in DOMAIN calls}

(***************************************************************************)
(* Properties of the CRUD operations, checked under SpecOps.               *)
(***************************************************************************)
\* C1: whenever the transport returned a response whose status is not the
\* operation's expected code, the operation returns an error; outside
\* [200,299] it is do()'s error with the code, inside it is the operation's
\* own error naming the operation and the code; and a nil error is returned
\* only for the expected code.
C1_TwoTierStatusCheck ==
    \A c \in Calls :
        /\ (c.got # Nil /\ c.got.StatusCode # ExpectedStatus(c.op)) =>
              /\ c.err # Nil
              /\ c.value = Nil
              /\ c.err = IF c.got.StatusCode \in 200..299
                         THEN ErrOp(NameInError(c.op), c.got.StatusCode)
                         ELSE ErrAPI(c.got.StatusCode)
        /\ (~c.panic /\ c.err = Nil) =>
              (c.got # Nil /\ c.got.StatusCode = ExpectedStatus(c.op))

\* A Create answered by 200 was rejected by the per-operation check.
C1_Witness ==
    \E c \in Calls :
        /\ c.op = "Create"
        /\ c.got # Nil
        /\ c.got.StatusCode = 200
        /\ c.err = ErrOp("create", 200)

\* C2: the body is decoded only by Create, Get and Update and only when the
\* status is the expected code; a 404 gives an error without a decode, and
\* a Delete answered by 204 succeeds without a decode.
C2_DecodeOnlyOnExpectedStatus ==
    \A c \in Calls :
        /\ Count(c.events, "decode") > 0 =>
              /\ c.op \in Decoding
              /\ c.got # Nil
              /\ c.got.StatusCode = ExpectedStatus(c.op)
        /\ (c.got # Nil /\ c.got.StatusCode = 404) =>
              (c.err # Nil /\ Count(c.events, "decode") = 0)
        /\ (c.op = "Delete" /\ c.got # Nil /\ c.got.StatusCode = 204) =>
              (c.err = Nil /\ Count(c.events, "decode") = 0)

\* A Delete answered by 204 with an empty body succeeded without a decode.
C2_Witness ==
    \E c \in Calls :
        /\ c.op = "Delete"
        /\ c.got = [StatusCode |-> 204, Body |-> EmptyBody]
        /\ c.err = Nil
        /\ Count(c.events, "decode") = 0

\* C3: whenever the transport returned a response, its body has been closed
\* exactly once when the operation returns.
C3_BodyClosedExactlyOnce ==
    \A c \in Calls : c.got # Nil => Count(c.events, "close") = 1

\* C4 as claimed: a body that does not decode, in a response with status
\* 200, 201 or 204, makes the operation return a decoding error and no
\* Stream, with the body closed exactly once.
C4_MalformedAnySuccessStatus ==
    \A c \in Calls :
        (c.got # Nil /\ c.got.StatusCode \in {200, 201, 204}
         /\ ~Decodable(c.got.Body)) =>
            /\ c.err = ErrDecode
            /\ c.value = Nil
            /\ Count(c.events, "close") = 1

\* C4 as amended: a body that does not decode, in a response to Create, Get
\* or Update whose status is that operation's expected code, makes the
\* operation return the decoding error and no Stream, with the body closed
\* exactly once, after the decode.
C4_MalformedOnExpectedStatus ==
    \A c \in Calls :
        (c.got # Nil /\ c.op \in Decoding
         /\ c.got.StatusCode = ExpectedStatus(c.op)
         /\ ~Decodable(c.got.Body)) =>
            /\ c.err = ErrDecode
            /\ c.value = Nil
            /\ Count(c.events, "close") = 1
            /\ c.events[Len(c.events)] = "close"

\* A Create answered by 201 with a body that is not JSON failed to decode
\* and closed the body.
C4_Witness ==
    \E c \in Calls :
        /\ c.op = "Create"
        /\ c.got = [StatusCode |-> 201, Body |-> MalformedBody]
        /\ c.err = ErrDecode
        /\ Count(c.events, "close") = 1

\* C6 as claimed: a call that returns an error has left the server's set of
\* streams as it was before the call.
C6_ErrorLeavesRemoteUnchanged ==
    \A c \in Calls : (~c.panic /\ c.err # Nil) => c.after = c.before

\* C6 as amended: a call returns either no error together with its result
\* (a decoded Stream for Create, Get and Update, nothing for Delete), and
\* then the status was the expected code, or an error and no Stream; never
\* an error together with a Stream.
C6_ResultOrErrorNeverBoth ==
    \A c \in Calls :
        ~c.panic =>
            IF c.err = Nil
            THEN /\ c.got # Nil
                 /\ c.got.StatusCode = ExpectedStatus(c.op)
                 /\ IF c.op \in Decoding
                    THEN c.value = Unmarshal(c.got.Body.obj)
                    ELSE c.value = Nil
            ELSE c.value = Nil

\* A Create whose answer did not decode returned an error and no Stream,
\* although the server had created a stream.
C6_Witness ==
    \E c \in Calls :
        /\ c.op = "Create"
        /\ c.err = ErrDecode
        /\ c.value = Nil
        /\ c.after # c.before

Last == calls[Len(calls)]

\* The latest handler ran the Read handler's GetStream to its return.
ReadReturned == calls # <<>> /\ Last.op = "Get" /\ ~Last.panic

\* C5 as claimed: a handler other than Create never changes a non-empty
\* stored ID while the entity of that ID exists remotely before and after
\* it; a stored ID that changes to a non-empty value is the ID of the
\* Create response; and after a successful Delete the stored ID is empty.
C5_IdNeverMutatedWhileRemoteExists ==
    [][/\ (handler' \in {"Read", "Update", "Delete"} /\ d.Id # ""
            /\ d.Id \in remote /\ d.Id \in remote') => d'.Id = d.Id
       /\ (d'.Id # d.Id /\ d'.Id # "") =>
             (handler' = "Create" /\ calls'[1].err = Nil
              /\ d'.Id = calls'[1].value.ID)
       /\ (handler' = "Delete" /\ ret' = Nil) => d'.Id = ""]_vars

\* C5 as amended: the stored ID changes only in three ways: the Create
\* handler sets it to the ID of the Create response once Create succeeded
\* (and the Read it re-invokes may clear it again); a failed GetStream in
\* the Read handler, also when re-invoked from Create and Update, clears
\* it, whether or not the entity still exists remotely; a successful
\* DeleteStream in the Delete handler clears it.  After a successful Delete
\* it is empty, and a failed Create, Update or Delete leaves it unchanged.
C5_IdChangesOnlyByCreateReadFailureDelete ==
    [][/\ d'.Id # d.Id =>
             \/ /\ handler' = "Create"
                /\ calls'[1].err = Nil
                /\ d'.Id = calls'[1].value.ID
             \/ /\ d'.Id = ""
                /\ calls'[Len(calls')].op = "Get"
                /\ calls'[Len(calls')].err # Nil
             \/ /\ d'.Id = ""
                /\ handler' = "Delete"
                /\ calls'[1].err = Nil
       /\ (handler' = "Delete" /\ ret' = Nil) => d'.Id = ""
       /\ (calls' # <<>> /\ calls'[1].op # "Get" /\ calls'[1].err # Nil) =>
             d'.Id = d.Id]_vars

\* The Read handler failed and cleared the stored ID although the entity it
\* asked for still exists remotely.
C5_Witness ==
    /\ handler = "Read"
    /\ ReadReturned
    /\ Last.err # Nil
    /\ Last.id \in remote
    /\ d.Id = ""

\* C7: whenever the Read handler's GetStream has failed, whether Read was
\* called directly or from Create or Update, the stored ID is empty and
\* the handler returns that failure; whenever it has succeeded, the stored
\* ID is the one the GET was made for and the representation holds the
\* fetched entity's attributes.
C7_ReadClearsIdOnFailure ==
    ReadReturned =>
        IF Last.err # Nil
        THEN d.Id = "" /\ ret = Last.err
        ELSE /\ d.Id = Last.id
             /\ d.attrs = [Enabled |-> Last.value.Enabled,
                           Type |-> Last.value.Type]
             /\ ret = Nil

\* Update succeeded, the Read it re-invoked failed on a rejected status, and
\* the stored ID was cleared.
C7_Witness ==
    /\ handler = "Update"
    /\ Len(calls) = 2
    /\ calls[1].err = Nil
    /\ calls[2].op = "Get"
    /\ calls[2].id # ""
    /\ calls[2].err = ErrAPI(404)
    /\ d.Id = ""
    /\ ret = ErrAPI(404)

\* C9: a Create handler whose CreateStream fails leaves the stored ID
\* unchanged and makes no further call; one whose CreateStream succeeds
\* invokes Read next, with the stored ID already set to the ID of the Create
\* response: the GetStream is made for that ID, the GET request (when one
\* goes out) names it, and if the Read succeeds that ID stays stored.
C9_CreateThenSetIdThenRead ==
    [][handler' = "Create" =>
          /\ calls'[1].op = "Create"
          /\ IF calls'[1].err # Nil
             THEN Len(calls') = 1 /\ d'.Id = d.Id /\ ret' = calls'[1].err
             ELSE /\ Len(calls') = 2
                  /\ calls'[2].op = "Get"
                  /\ calls'[2].id = calls'[1].value.ID
                  /\ calls'[2].req # Nil =>
                        /\ calls'[2].req.method = "GET"
                        /\ calls'[2].req.url.path
                              = <<"/stream/", calls'[1].value.ID>>
                  /\ (~calls'[2].panic /\ calls'[2].err = Nil) =>
                        d'.Id = calls'[1].value.ID]_vars

\* Create succeeded with a non-empty ID, the GET went out for that ID and
\* succeeded, and the ID is stored.
C9_Witness ==
    /\ handler = "Create"
    /\ Len(calls) = 2
    /\ calls[1].err = Nil
    /\ calls[1].value.ID \in ValidIds
    /\ calls[2].req # Nil
    /\ calls[2].req.url.path = <<"/stream/", calls[1].value.ID>>
    /\ calls[2].err = Nil
    /\ d.Id = calls[1].value.ID

====
